---------------------------- MODULE Spec2Model ----------------------------
(***************************************************************************)
(* Model of the matrix crate: the fixed-layout engine Matrix<T, R, C>      *)
(* (src/src/lib.rs), the flat-layout engine DynMatrics<T, R, C>            *)
(* (src/src/dynamic.rs) and a driver that builds the operands and calls    *)
(* the four multiplications in the order of src/src/bin/main.rs.           *)
(*                                                                         *)
(* Indices are 0-based as in the source; At(s, n) reads position n of a    *)
(* TLA+ sequence.  usize is a word of WordBits bits.  An arithmetic        *)
(* overflow panics when the build has overflow checks (debug profile) and  *)
(* wraps when it has not (release profile): the first overflow takes       *)
(* either outcome and every later one of the run takes the same, as the    *)
(* calls of one run come from one build.  A panic of one call is recorded  *)
(* as that call's outcome and the driver goes on with the next call (each  *)
(* call is a test of its own).                                             *)
(***************************************************************************)
EXTENDS Integers, Sequences, FiniteSets, TLC

(***************************************************************************)
(* Bounds of the model.                                                    *)
(***************************************************************************)
MaxX == 3
MaxY == 2
MaxZ == 2
MaxGen == 2
MaxWorkers == 4
WordBits == 4

VARIABLES
    X, Y, Z,            \* const generics: self is X by Y, matrix1 is Y by Z
    parallel,           \* the worker count handed to dot_product_in_parallel
    rowsA, rowsB,       \* the row-major data sets of the two operands
    vecA,               \* the Vec handed to try_from for the left operand
    driver,             \* the driver's position
    fill,               \* generate_dynamic_matrix: elements assigned so far
    build,              \* the build profile, once an overflow has shown it
    fixedA, fixedB,     \* Matrix::from results
    dynA, dynB,         \* DynMatrics::try_from results
    fixedSeq, fixedPar, \* outcomes of the fixed-layout calls
    dynSeq, dynPar,     \* outcomes of the flat-layout calls
    pc,                 \* main thread inside thread::scope
    chunk_size,         \* let chunk_size
    iter,               \* enumerate() index / for _ in 0..parallel counter
    start_index,        \* dynamic.rs: let mut start_index
    rest_lo,            \* dynamic.rs: offset of result_slices in result.data
    result,             \* result.data of the call in progress
    workers,            \* the spawned scoped threads, in spawn order
    written             \* ghost: per result element, the workers that wrote it

vars == <<X, Y, Z, parallel, rowsA, rowsB, vecA, driver, fill, build,
          fixedA, fixedB, dynA, dynB, fixedSeq, fixedPar, dynSeq, dynPar,
          pc, chunk_size, iter, start_index, rest_lo, result, workers,
          written>>

inputVars == <<X, Y, Z, parallel, rowsA, rowsB>>
matrixVars == <<fixedA, fixedB, dynA, dynB>>
outcomeVars == <<fixedSeq, fixedPar, dynSeq, dynPar>>
scopeVars == <<pc, chunk_size, iter, start_index, rest_lo, result, workers,
               written>>

(***************************************************************************)
(* Helpers: 0-based reads, min, the element type's zero.                   *)
(***************************************************************************)
At(s, n) == s[n + 1]

InRange(s, n) == n >= 0 /\ n < Len(s)

Min(m, n) == IF m <= n THEN m ELSE n

\* T::default() of the numeric element type
Zero == 0

(***************************************************************************)
(* usize arithmetic.                                                       *)
(***************************************************************************)
WordModulus == 2 ^ WordBits

MaxWord == WordModulus - 1

\* the outcome "the thread panicked" of a usize computation
Panic == 0 - 1

\* x + y on usize
UsizeAdd(x, y, checks) ==
    IF x + y > MaxWord
    THEN IF checks THEN Panic ELSE (x + y) % WordModulus
    ELSE x + y

\* x - y on usize
UsizeSub(x, y, checks) ==
    IF x - y < 0
    THEN IF checks THEN Panic ELSE (x - y + WordModulus) % WordModulus
    ELSE x - y

\* x / y on usize: division by zero panics in every build
UsizeDiv(x, y) == IF y = 0 THEN Panic ELSE x \div y

\* let chunk_size = (X + parallel - 1) / parallel;
ChunkSize(x, p, checks) ==
    LET s == UsizeAdd(x, p, checks)
    IN  IF s = Panic THEN Panic
        ELSE LET d == UsizeSub(s, 1, checks)
             IN  IF d = Panic THEN Panic ELSE UsizeDiv(d, p)

\* X + parallel - 1 leaves usize on the way: only then does the build profile
\* show in what the call does
Overflows(x, p) == x + p > MaxWord \/ x + p - 1 < 0

Profile(overflow_checks) == IF overflow_checks THEN "debug" ELSE "release"

(***************************************************************************)
(* The driver's inputs: the worker counts and the data sets.               *)
(***************************************************************************)
\* small counts, and the two largest values of usize
WorkerCounts == (0 .. MaxWorkers) \cup {MaxWord - 1, MaxWord}

\* element n of the generated row-major data set g with c columns:
\* 0 the zero matrix, 1 ones on the diagonal, g >= 2 the ramp g-1, g, g+1, ...
GenElement(g, n, c) ==
    IF g = 0 THEN 0
    ELSE IF g = 1 THEN (IF c > 0 /\ n \div c = n % c THEN 1 ELSE 0)
    ELSE (g - 1) + n

\* the r by c data set g as nested rows
GenRows(g, r, c) ==
    [i \in 1 .. r |-> [j \in 1 .. c |-> GenElement(g, (i - 1) * c + (j - 1), c)]]

RECURSIVE Flatten(_)
\* the row-major flattening of nested rows
Flatten(rows) ==
    IF rows = <<>> THEN <<>> ELSE Head(rows) \o Flatten(Tail(rows))

\* the flattened data set, one element short (-1), exact (0) or one long (1)
Resize(flat, delta) ==
    IF delta = 1 THEN Append(flat, 9)
    ELSE IF delta = -1 /\ Len(flat) > 0 THEN SubSeq(flat, 1, Len(flat) - 1)
    ELSE flat

(***************************************************************************)
(* Constructors and row views.                                             *)
(***************************************************************************)
NoMatrix == [ok |-> FALSE, data |-> <<>>]

\* lib.rs: Default for Matrix
MatrixDefault(r, c) == [data |-> [i \in 1 .. r |-> [j \in 1 .. c |-> Zero]]]

\* lib.rs: From<[[T; Y]; X]> for Matrix
MatrixFrom(data) == [data |-> data]

\* dynamic.rs: Default for DynMatrics
DynDefault(r, c) == [data |-> [n \in 1 .. r * c |-> Zero]]

\* a mutant of TryFrom: the length test accepts a longer source
TryFromAtLeast(data, r, c) ==
    IF Len(data) >= r * c THEN [ok |-> TRUE, data |-> data] ELSE NoMatrix

\* dynamic.rs: TryFrom<Vec<T>> for DynMatrics; ok = FALSE is Err(())
TryFrom(data, r, c) ==
    IF Len(data) = r * c THEN [ok |-> TRUE, data |-> data] ELSE NoMatrix

\* dynamic.rs: Index<usize> for DynMatrics, the row view &self.data[start..end]
DynIndex(m, index, c) ==
    LET start == index * c
        end == start + c
    IN  SubSeq(m.data, start + 1, end)

\* dynamic.rs: IndexMut<usize> for DynMatrics, then [j] on the row view:
\* &mut self.data[start..end] panics when end is past the buffer, [j] when j
\* is past the row
DynIndexMutInRange(m, index, j, c) ==
    LET start == index * c
        end == start + c
    IN  end <= Len(m.data) /\ j < c

\* a mutant of DynIndexMutStore: the element is pushed at the end of the buffer
DynIndexMutStoreAppends(m, index, j, value, c) ==
    [m EXCEPT !.data = Append(@, value)]

\* matrix[index][j] = value through the row view
DynIndexMutStore(m, index, j, value, c) ==
    LET start == index * c
    IN  [m EXCEPT !.data[start + j + 1] = value]

\* lib.rs: Index<usize> for Matrix
MatrixIndex(m, index) == At(m.data, index)

(***************************************************************************)
(* Sequential multiplication, fixed layout (lib.rs, Matrix::dot_product).  *)
(***************************************************************************)
RECURSIVE MatrixSumLoop(_, _, _, _, _, _, _)
\* for k in 0..Y { sum = sum + self.data[i][k] * matrix1.data[k][j]; }
MatrixSumLoop(self, matrix1, i, j, k, y, sum) ==
    IF k >= y THEN sum
    ELSE MatrixSumLoop(self, matrix1, i, j, k + 1, y,
                       sum + At(At(self.data, i), k) * At(At(matrix1.data, k), j))

RECURSIVE MatrixColLoop(_, _, _, _, _, _, _)
\* for j in 0..Z { let mut sum = T::default(); ...; result.data[i][j] = sum; }
MatrixColLoop(self, matrix1, res, i, j, y, z) ==
    IF j >= z THEN res
    ELSE MatrixColLoop(self, matrix1,
                       [res EXCEPT !.data[i + 1][j + 1] =
                            MatrixSumLoop(self, matrix1, i, j, 0, y, Zero)],
                       i, j + 1, y, z)

RECURSIVE MatrixRowLoop(_, _, _, _, _, _, _)
\* for i in 0..X { ... }
MatrixRowLoop(self, matrix1, res, i, x, y, z) ==
    IF i >= x THEN res
    ELSE MatrixRowLoop(self, matrix1,
                       MatrixColLoop(self, matrix1, res, i, 0, y, z),
                       i + 1, x, y, z)

\* a mutant of MatrixDotProduct: the accumulator is seeded at one
MatrixDotProductSeedOne(self, matrix1, x, y, z) ==
    [data |-> [i \in 1 .. x |-> [j \in 1 .. z |->
        MatrixSumLoop(self, matrix1, i - 1, j - 1, 0, y, 1)]]]

\* Matrix::<T, X, Y>::dot_product::<Z>(&self, matrix1)
MatrixDotProduct(self, matrix1, x, y, z) ==
    MatrixRowLoop(self, matrix1, MatrixDefault(x, z), 0, x, y, z)

(***************************************************************************)
(* Sequential multiplication, flat layout (dynamic.rs,                     *)
(* DynMatrics::dot_product).                                               *)
(***************************************************************************)
RECURSIVE DynSumLoop(_, _, _, _, _, _, _, _)
\* for k in 0..Y { sum = sum + self.data[i * Y + k] * matrix1.data[k * Z + j]; }
DynSumLoop(self, matrix1, i, j, k, y, z, sum) ==
    IF k >= y THEN sum
    ELSE DynSumLoop(self, matrix1, i, j, k + 1, y, z,
                    sum + At(self.data, i * y + k) * At(matrix1.data, k * z + j))

RECURSIVE DynColLoop(_, _, _, _, _, _, _)
\* for j in 0..Z { let mut sum = T::default(); ...; result.data[i * Z + j] = sum; }
DynColLoop(self, matrix1, res, i, j, y, z) ==
    IF j >= z THEN res
    ELSE DynColLoop(self, matrix1,
                    [res EXCEPT !.data[i * z + j + 1] =
                         DynSumLoop(self, matrix1, i, j, 0, y, z, Zero)],
                    i, j + 1, y, z)

RECURSIVE DynRowLoop(_, _, _, _, _, _, _)
\* for i in 0..X { ... }
DynRowLoop(self, matrix1, res, i, x, y, z) ==
    IF i >= x THEN res
    ELSE DynRowLoop(self, matrix1, DynColLoop(self, matrix1, res, i, 0, y, z),
                    i + 1, x, y, z)

\* DynMatrics::<T, X, Y>::dot_product::<Z>(&self, matrix1)
DynDotProduct(self, matrix1, x, y, z) ==
    DynRowLoop(self, matrix1, DynDefault(x, z), 0, x, y, z)

(***************************************************************************)
(* The state after construction.                                           *)
(***************************************************************************)
\* the outcome of a call: st is "none" (not called), "ok" or "panic"
\* chunk is the call's chunk_size, ranges the row ranges <<start, end>> its
\* workers were handed, in spawn order
NoOutcome ==
    [st |-> "none", data |-> <<>>, chunk |-> 0, spawned |-> 0, ranges |-> <<>>]

Returned(data, chunk, ranges) ==
    [st |-> "ok", data |-> data, chunk |-> chunk, spawned |-> Len(ranges),
     ranges |-> ranges]

Panicked(chunk, ranges) ==
    [st |-> "panic", data |-> <<>>, chunk |-> chunk, spawned |-> Len(ranges),
     ranges |-> ranges]

Init ==
    /\ X \in 0 .. MaxX
    /\ Y \in 0 .. MaxY
    /\ Z \in 0 .. MaxZ
    /\ parallel \in WorkerCounts
    /\ \E gA \in 0 .. MaxGen : rowsA = GenRows(gA, X, Y)
    /\ \E gB \in 0 .. MaxGen : rowsB = GenRows(gB, Y, Z)
    /\ vecA = <<>>
    /\ driver = "try_b"
    /\ fill = 0
    /\ build = "unobserved"
    /\ fixedA = NoMatrix /\ fixedB = NoMatrix
    /\ dynA = NoMatrix /\ dynB = NoMatrix
    /\ fixedSeq = NoOutcome /\ fixedPar = NoOutcome
    /\ dynSeq = NoOutcome /\ dynPar = NoOutcome
    /\ pc = "idle"
    /\ chunk_size = 0
    /\ iter = 0
    /\ start_index = 0
    /\ rest_lo = 0
    /\ result = <<>>
    /\ workers = <<>>
    /\ written = <<>>

(***************************************************************************)
(* The driver builds the operands.                                         *)
(***************************************************************************)
\* DynMatrics::<_, Y, Z>::try_from(vec) for the right operand
TryFromB ==
    /\ driver = "try_b"
    /\ dynB' = TryFrom(Flatten(rowsB), Y, Z)
    /\ driver' = "try_a"
    /\ UNCHANGED <<inputVars, vecA, fill, build, fixedA, fixedB, dynA,
                   outcomeVars, scopeVars>>

\* generate_dynamic_matrix: let mut matrix = DynMatrics::default(); the loops
\* over i and j have no turn when the matrix has no element
GenerateDynamicMatrix ==
    /\ driver = "try_b"
    /\ dynB' = [ok |-> TRUE, data |-> DynDefault(Y, Z).data]
    /\ driver' = IF Y * Z = 0 THEN "try_a" ELSE "gen_b"
    /\ UNCHANGED <<inputVars, vecA, fill, build, fixedA, fixedB, dynA,
                   outcomeVars, scopeVars>>

\* generate_dynamic_matrix: matrix[i][j] = value, the elements in row-major
\* order; a panic of the row view ends the driver
GenerateElement ==
    /\ driver = "gen_b"
    /\ LET i == fill \div Z
           j == fill % Z
       IN  IF DynIndexMutInRange(dynB, i, j, Z)
           THEN /\ dynB' = DynIndexMutStore(dynB, i, j, At(At(rowsB, i), j), Z)
                /\ fill' = IF fill + 1 = Y * Z THEN 0 ELSE fill + 1
                /\ driver' = IF fill + 1 = Y * Z THEN "try_a" ELSE driver
           ELSE /\ driver' = "rejected"
                /\ UNCHANGED <<dynB, fill>>
    /\ UNCHANGED <<inputVars, vecA, build, fixedA, fixedB, dynA, outcomeVars,
                   scopeVars>>

\* DynMatrics::<_, X, Y>::try_from(vec) for the left operand; on Err(()) the
\* driver has no left operand and stops
TryFromA ==
    /\ driver = "try_a"
    /\ \E delta \in {0 - 1, 0, 1} : vecA' = Resize(Flatten(rowsA), delta)
    /\ dynA' = TryFrom(vecA', X, Y)
    /\ driver' = IF dynA'.ok /\ dynB.ok THEN "from_a" ELSE "rejected"
    /\ UNCHANGED <<inputVars, fill, build, fixedA, fixedB, dynB, outcomeVars,
                   scopeVars>>

\* Matrix::from(rows) for the left operand
FromA ==
    /\ driver = "from_a"
    /\ fixedA' = [ok |-> TRUE, data |-> MatrixFrom(rowsA).data]
    /\ driver' = "from_b"
    /\ UNCHANGED <<inputVars, vecA, fill, build, fixedB, dynA, dynB,
                   outcomeVars, scopeVars>>

\* Matrix::from(rows) for the right operand
FromB ==
    /\ driver = "from_b"
    /\ fixedB' = [ok |-> TRUE, data |-> MatrixFrom(rowsB).data]
    /\ driver' = "fixed_seq"
    /\ UNCHANGED <<inputVars, vecA, fill, build, fixedA, dynA, dynB,
                   outcomeVars, scopeVars>>

(***************************************************************************)
(* The sequential calls.                                                   *)
(***************************************************************************)
\* a.dot_product(&b), fixed layout
CallMatrixDotProduct ==
    /\ driver = "fixed_seq"
    /\ fixedSeq' = Returned(MatrixDotProduct(fixedA, fixedB, X, Y, Z).data, 0, <<>>)
    /\ driver' = "fixed_par"
    /\ UNCHANGED <<inputVars, vecA, fill, build, matrixVars, fixedPar, dynSeq,
                   dynPar, scopeVars>>

\* a.dot_product(&b), flat layout
CallDynDotProduct ==
    /\ driver = "dyn_seq"
    /\ dynSeq' = Returned(DynDotProduct(dynA, dynB, X, Y, Z).data, 0, <<>>)
    /\ driver' = "dyn_par"
    /\ UNCHANGED <<inputVars, vecA, fill, build, matrixVars, fixedSeq,
                   fixedPar, dynPar, scopeVars>>

(***************************************************************************)
(* The scoped worker threads.  A worker is finished when it has written    *)
(* its last element or has panicked; a worker of no element is finished    *)
(* when it is spawned.                                                     *)
(***************************************************************************)
Finished(w) == w.panicked \/ w.pos >= w.rows * Z

\* a mutant of AllFinished: the scope ends without waiting for its workers
AllFinishedUnjoined == TRUE

AllFinished == \A n \in 1 .. Len(workers) : Finished(workers[n])

AnyPanicked == \E n \in 1 .. Len(workers) : workers[n].panicked

\* the rows [start, end) a worker was handed: chunk i of chunks_mut in the
\* fixed layout, [start_index, chunk_end) in the flat one
RowRange(w) ==
    IF "lo" \in DOMAIN w
    THEN <<w.lo, w.lo + w.rows>>
    ELSE <<w.start_index, w.chunk_end>>

RowRanges(ws) == [n \in 1 .. Len(ws) |-> RowRange(ws[n])]

\* ghost: worker n wrote the result element at row-major position e
Wrote(n, e) == [written EXCEPT ![e + 1] = @ \cup {n}]

(***************************************************************************)
(* Parallel multiplication, fixed layout (lib.rs,                          *)
(* Matrix::dot_product_in_parallel).                                       *)
(***************************************************************************)
\* let mut result = default(); let chunk_size = ...; result.data.chunks_mut(chunk_size):
\* the overflow and the division can panic, and chunks_mut panics on 0
CallMatrixDotProductInParallel ==
    /\ driver = "fixed_par"
    /\ pc \in {"idle", "joined"}
    /\ \E overflow_checks \in BOOLEAN :
       LET size == ChunkSize(X, parallel, overflow_checks)
       IN  /\ build \in {"unobserved", Profile(overflow_checks)}
           /\ build' = IF Overflows(X, parallel)
                        THEN Profile(overflow_checks)
                        ELSE build
           /\ chunk_size' = size
           /\ IF size = Panic \/ size = 0
              THEN /\ fixedPar' = Panicked(size, <<>>)
                   /\ pc' = "joined"
                   /\ driver' = "dyn_seq"
              ELSE /\ fixedPar' = fixedPar
                   /\ pc' = "spawning"
                   /\ driver' = driver
    /\ result' = MatrixDefault(X, Z).data
    /\ workers' = <<>>
    /\ written' = [e \in 1 .. X * Z |-> {}]
    /\ iter' = 0
    /\ start_index' = 0
    /\ rest_lo' = 0
    /\ UNCHANGED <<inputVars, vecA, fill, matrixVars, fixedSeq, dynSeq,
                   dynPar>>

\* the rows chunks_mut(chunk_size) hands out as chunk number i: [lo, lo + rows)
ChunkLo(i, size) == i * size

ChunkRows(i, size, x) == Min(size, x - ChunkLo(i, size))

\* .enumerate().for_each(|(i, chunk)| { scope.spawn(move || ...) }): one chunk
SpawnMatrixWorker ==
    /\ driver = "fixed_par"
    /\ pc = "spawning"
    /\ ChunkLo(iter, chunk_size) < X
    /\ workers' = Append(workers,
                         [i |-> iter,
                          lo |-> ChunkLo(iter, chunk_size),
                          rows |-> ChunkRows(iter, chunk_size, X),
                          pos |-> 0,
                          panicked |-> FALSE])
    /\ iter' = iter + 1
    /\ UNCHANGED <<inputVars, vecA, fill, build, matrixVars, outcomeVars,
                   driver, pc, chunk_size, start_index, rest_lo, result,
                   written>>

\* let start_index = i * chunk_size;
MatrixWorkerStart(i, size) == i * size

RECURSIVE MatrixWorkerSumLoop(_, _, _, _, _, _, _)
\* for y in 0..Y { sum = sum + matrix0[global_index][y] * matrix1_data[y][z]; }
MatrixWorkerSumLoop(matrix0, matrix1_data, global_index, z, y, ymax, sum) ==
    IF y >= ymax THEN sum
    ELSE MatrixWorkerSumLoop(matrix0, matrix1_data, global_index, z, y + 1, ymax,
                             sum + At(At(matrix0, global_index), y)
                                   * At(At(matrix1_data, y), z))

\* a mutant of MatrixWorkerStore: the sum lands in the left operand
MatrixWorkerStoreIntoOperand(bufs, row, z, sum) ==
    [bufs EXCEPT !.matrix0[row + 1][z + 1] = sum]

\* row[z] = sum; of the three matrices the worker can reach (matrix0 and
\* matrix1_data shared, its chunk of result exclusive) the store changes one
MatrixWorkerStore(bufs, row, z, sum) ==
    [bufs EXCEPT !.result[row + 1][z + 1] = sum]

\* one element of a worker's chunk: row[z] = sum, with row = chunk[local_index];
\* matrix0[global_index] out of range panics the worker
MatrixWorkerStep(n) ==
    /\ driver = "fixed_par"
    /\ pc = "spawning"
    /\ n \in 1 .. Len(workers)
    /\ ~Finished(workers[n])
    /\ LET w == workers[n]
           local_index == w.pos \div Z
           z == w.pos % Z
           global_index == MatrixWorkerStart(w.i, chunk_size) + local_index
       IN  IF Y > 0 /\ ~InRange(fixedA.data, global_index)
           THEN /\ workers' = [workers EXCEPT ![n].panicked = TRUE]
                /\ UNCHANGED <<fixedA, fixedB, result, written>>
           ELSE LET sum == MatrixWorkerSumLoop(fixedA.data, fixedB.data,
                                               global_index, z, 0, Y, Zero)
                    stored == MatrixWorkerStore([matrix0 |-> fixedA.data,
                                                 matrix1 |-> fixedB.data,
                                                 result |-> result],
                                                w.lo + local_index, z, sum)
                IN  /\ result' = stored.result
                    /\ fixedA' = [fixedA EXCEPT !.data = stored.matrix0]
                    /\ fixedB' = [fixedB EXCEPT !.data = stored.matrix1]
                    /\ written' = Wrote(n, (w.lo + local_index) * Z + z)
                    /\ workers' = [workers EXCEPT ![n].pos = @ + 1]
    /\ UNCHANGED <<inputVars, vecA, fill, build, dynA, dynB, outcomeVars,
                   driver, pc, chunk_size, iter, start_index, rest_lo>>

\* the end of thread::scope: every chunk is handed out and every worker has
\* finished; a worker's panic is the call's panic
JoinMatrixWorkers ==
    /\ driver = "fixed_par"
    /\ pc = "spawning"
    /\ ChunkLo(iter, chunk_size) >= X
    /\ AllFinished
    /\ fixedPar' = IF AnyPanicked
                   THEN Panicked(chunk_size, RowRanges(workers))
                   ELSE Returned(result, chunk_size, RowRanges(workers))
    /\ pc' = "joined"
    /\ driver' = "dyn_seq"
    /\ UNCHANGED <<inputVars, vecA, fill, build, matrixVars, fixedSeq, dynSeq,
                   dynPar, chunk_size, iter, start_index, rest_lo, result,
                   workers, written>>

(***************************************************************************)
(* Parallel multiplication, flat layout (dynamic.rs,                       *)
(* DynMatrics::dot_product_in_parallel).                                   *)
(***************************************************************************)
\* let mut result = default(); let chunk_size = ...; let mut start_index = 0;
\* let mut result_slices = &mut result.data[..];
CallDynDotProductInParallel ==
    /\ driver = "dyn_par"
    /\ pc \in {"idle", "joined"}
    /\ \E overflow_checks \in BOOLEAN :
       LET size == ChunkSize(X, parallel, overflow_checks)
       IN  /\ build \in {"unobserved", Profile(overflow_checks)}
           /\ build' = IF Overflows(X, parallel)
                        THEN Profile(overflow_checks)
                        ELSE build
           /\ chunk_size' = size
           /\ IF size = Panic
              THEN /\ dynPar' = Panicked(size, <<>>)
                   /\ pc' = "joined"
                   /\ driver' = "end"
              ELSE /\ dynPar' = dynPar
                   /\ pc' = "spawning"
                   /\ driver' = driver
    /\ result' = DynDefault(X, Z).data
    /\ workers' = <<>>
    /\ written' = [e \in 1 .. X * Z |-> {}]
    /\ iter' = 0
    /\ start_index' = 0
    /\ rest_lo' = 0
    /\ UNCHANGED <<inputVars, vecA, fill, matrixVars, fixedSeq, fixedPar,
                   dynSeq>>

\* a mutant of DynLoopContinues: the break test is start_index > X
DynLoopContinuesPastEnd(count, start, p, x) == count < p /\ ~(start > x)

\* for _ in 0..parallel { if start_index >= X { break; } ...
DynLoopContinues(count, start, p, x) == count < p /\ ~(start >= x)

\* let chunk_end = std::cmp::min(start_index + chunk_size, X);
DynChunkEnd(start, size, x) == Min(start + size, x)

\* one turn of the loop: split_at_mut((chunk_end - start_index) * Z) panics when
\* the rest is shorter, &matrix0[start * Y..end * Y] panics when out of range;
\* a panic of the main thread unwinds through the scope
SpawnDynWorker ==
    /\ driver = "dyn_par"
    /\ pc = "spawning"
    /\ DynLoopContinues(iter, start_index, parallel, X)
    /\ LET chunk_end == DynChunkEnd(start_index, chunk_size, X)
           mid == (chunk_end - start_index) * Z
           local_matrix0_start == start_index * Y
           local_matrix0_end == chunk_end * Y
       IN  IF \/ mid > Len(result) - rest_lo
              \/ local_matrix0_start > local_matrix0_end
              \/ local_matrix0_end > Len(dynA.data)
           THEN /\ pc' = "unwinding"
                /\ UNCHANGED <<workers, start_index, rest_lo, iter>>
           ELSE /\ workers' = Append(workers,
                                     [start_index |-> start_index,
                                      chunk_end |-> chunk_end,
                                      rows |-> chunk_end - start_index,
                                      res_lo |-> rest_lo,
                                      res_len |-> mid,
                                      m0_lo |-> local_matrix0_start,
                                      m0_len |-> local_matrix0_end
                                                 - local_matrix0_start,
                                      pos |-> 0,
                                      panicked |-> FALSE])
                /\ rest_lo' = rest_lo + mid
                /\ start_index' = chunk_end
                /\ iter' = iter + 1
                /\ pc' = pc
    /\ UNCHANGED <<inputVars, vecA, fill, build, matrixVars, outcomeVars,
                   driver, chunk_size, result, written>>

RECURSIVE DynWorkerSumLoop(_, _, _, _, _, _, _, _)
\* for k in 0..Y { sum = sum + local_matrix0[i * Y + k] * matrix1_data[k * Z + j]; }
DynWorkerSumLoop(local_matrix0, matrix1_data, i, j, k, y, z, sum) ==
    IF k >= y THEN sum
    ELSE DynWorkerSumLoop(local_matrix0, matrix1_data, i, j, k + 1, y, z,
                          sum + At(local_matrix0, i * y + k)
                                * At(matrix1_data, k * z + j))

\* local_result[i * Z + j] = sum; of the three buffers the worker can reach
\* (local_matrix0 and matrix1_data shared, local_result exclusive) the store
\* changes one
DynWorkerStore(bufs, e, sum) == [bufs EXCEPT !.result[e + 1] = sum]

\* one element of a worker's slice: local_result[i * Z + j] = sum; an index out
\* of local_matrix0, matrix1_data or local_result panics the worker
DynWorkerStep(n) ==
    /\ driver = "dyn_par"
    /\ pc \in {"spawning", "unwinding"}
    /\ n \in 1 .. Len(workers)
    /\ ~Finished(workers[n])
    /\ LET w == workers[n]
           i == w.pos \div Z
           j == w.pos % Z
           local_matrix0 == SubSeq(dynA.data, w.m0_lo + 1, w.m0_lo + w.m0_len)
       IN  IF \/ \E k \in 0 .. Y - 1 :
                     \/ ~InRange(local_matrix0, i * Y + k)
                     \/ ~InRange(dynB.data, k * Z + j)
              \/ ~(i * Z + j < w.res_len)
           THEN /\ workers' = [workers EXCEPT ![n].panicked = TRUE]
                /\ UNCHANGED <<dynA, dynB, result, written>>
           ELSE LET sum == DynWorkerSumLoop(local_matrix0, dynB.data,
                                            i, j, 0, Y, Z, Zero)
                    stored == DynWorkerStore([matrix0 |-> dynA.data,
                                              matrix1 |-> dynB.data,
                                              result |-> result],
                                             w.res_lo + i * Z + j, sum)
                IN  /\ result' = stored.result
                    /\ dynA' = [dynA EXCEPT !.data = stored.matrix0]
                    /\ dynB' = [dynB EXCEPT !.data = stored.matrix1]
                    /\ written' = Wrote(n, w.res_lo + i * Z + j)
                    /\ workers' = [workers EXCEPT ![n].pos = @ + 1]
    /\ UNCHANGED <<inputVars, vecA, fill, build, fixedA, fixedB, outcomeVars,
                   driver, pc, chunk_size, iter, start_index, rest_lo>>

\* the end of thread::scope: the loop has ended (or the main thread unwinds)
\* and every worker has finished
JoinDynWorkers ==
    /\ driver = "dyn_par"
    /\ \/ pc = "unwinding"
       \/ pc = "spawning" /\ ~DynLoopContinues(iter, start_index, parallel, X)
    /\ AllFinished
    /\ dynPar' = IF pc = "unwinding" \/ AnyPanicked
                 THEN Panicked(chunk_size, RowRanges(workers))
                 ELSE Returned(result, chunk_size, RowRanges(workers))
    /\ pc' = "joined"
    /\ driver' = "end"
    /\ UNCHANGED <<inputVars, vecA, fill, build, matrixVars, fixedSeq,
                   fixedPar, dynSeq, chunk_size, iter, start_index, rest_lo,
                   result, workers, written>>

(***************************************************************************)
(* The specification.                                                      *)
(***************************************************************************)
Next ==
    \/ TryFromB
    \/ GenerateDynamicMatrix
    \/ GenerateElement
    \/ TryFromA
    \/ FromA
    \/ FromB
    \/ CallMatrixDotProduct
    \/ CallMatrixDotProductInParallel
    \/ SpawnMatrixWorker
    \/ \E n \in 1 .. MaxWord : MatrixWorkerStep(n)
    \/ JoinMatrixWorkers
    \/ CallDynDotProduct
    \/ CallDynDotProductInParallel
    \/ SpawnDynWorker
    \/ \E n \in 1 .. MaxWord : DynWorkerStep(n)
    \/ JoinDynWorkers

Spec == Init /\ [][Next]_vars

\* the steps of the main thread: the driver and, inside thread::scope, the
\* spawning loop and the join
MainThread ==
    \/ TryFromB
    \/ GenerateDynamicMatrix
    \/ GenerateElement
    \/ TryFromA
    \/ FromA
    \/ FromB
    \/ CallMatrixDotProduct
    \/ CallMatrixDotProductInParallel
    \/ SpawnMatrixWorker
    \/ JoinMatrixWorkers
    \/ CallDynDotProduct
    \/ CallDynDotProductInParallel
    \/ SpawnDynWorker
    \/ JoinDynWorkers

\* fair scheduling: a thread that can take a step is not left waiting for
\* ever, be it the main thread or a spawned worker
FairSpec ==
    /\ Spec
    /\ WF_vars(MainThread)
    /\ \A n \in 1 .. MaxWord : WF_vars(MatrixWorkerStep(n) \/ DynWorkerStep(n))

(***************************************************************************)
(* What the claims speak of.                                               *)
(***************************************************************************)
\* the sequential results the parallel calls are compared with
MatrixSequential == MatrixDotProduct(fixedA, fixedB, X, Y, Z).data

DynSequential == DynDotProduct(dynA, dynB, X, Y, Z).data

Called(outcome) == outcome.st # "none"

\* the worker counts at the top of the usize range
AbsurdlyLarge(p) == p >= MaxWord - 1

\* no addition or subtraction of the chunk-size computation leaves the word
NoOverflow(x, p) == x + p <= MaxWord /\ x + p >= 1

RECURSIVE AscendingSum(_)
\* ((zero + t[0]) + t[1]) + ... of a sequence of terms
AscendingSum(terms) ==
    IF terms = <<>> THEN Zero
    ELSE AscendingSum(SubSeq(terms, 1, Len(terms) - 1)) + terms[Len(terms)]

(***************************************************************************)
(* C1: fixed layout, X >= 1, worker count >= 1: the parallel call returns  *)
(* and its result equals dot_product's, element by element.                *)
(***************************************************************************)
C1_MatrixParallelEqualsSequential ==
    (X >= 1 /\ parallel >= 1 /\ Called(fixedPar)) =>
        /\ fixedPar.st = "ok"
        /\ fixedPar.data = MatrixSequential

(***************************************************************************)
(* C2: flat layout, X >= 1, worker count >= 1: no slice access is out of   *)
(* range, the parallel call returns and its buffer equals dot_product's.   *)
(***************************************************************************)
C2_DynParallelEqualsSequential ==
    (X >= 1 /\ parallel >= 1) =>
        /\ (driver = "dyn_par" => pc # "unwinding" /\ ~AnyPanicked)
        /\ Called(dynPar) =>
              /\ dynPar.st = "ok"
              /\ dynPar.data = DynSequential

(***************************************************************************)
(* What does hold of C1 and C2: when X + parallel stays inside usize, both *)
(* parallel calls return the sequential result.                            *)
(***************************************************************************)
ParallelEqualsSequentialWithoutOverflow ==
    (X >= 1 /\ parallel >= 1 /\ NoOverflow(X, parallel)) =>
        /\ Called(fixedPar) =>
              fixedPar.st = "ok" /\ fixedPar.data = MatrixSequential
        /\ Called(dynPar) =>
              dynPar.st = "ok" /\ dynPar.data = DynSequential
        /\ (driver = "dyn_par" => pc # "unwinding")
        /\ (pc = "spawning" => ~AnyPanicked)

(***************************************************************************)
(* C3: worker count 0 is no error in either engine: the call returns the   *)
(* sequential result.                                                      *)
(***************************************************************************)
C3_ZeroWorkersReturnSequential ==
    parallel = 0 =>
        /\ Called(fixedPar) =>
              fixedPar.st = "ok" /\ fixedPar.data = MatrixSequential
        /\ Called(dynPar) =>
              dynPar.st = "ok" /\ dynPar.data = DynSequential

(***************************************************************************)
(* C4: fixed layout, X = 0, worker count >= 1: the parallel call returns a *)
(* result of zero rows and spawns no worker.                               *)
(***************************************************************************)
C4_MatrixEmptyRowSetReturns ==
    (X = 0 /\ parallel >= 1 /\ Called(fixedPar)) =>
        /\ fixedPar.st = "ok"
        /\ fixedPar.data = <<>>
        /\ fixedPar.spawned = 0

(***************************************************************************)
(* C5: flat layout, X = 0, worker count >= 1: the parallel call spawns no  *)
(* worker, can only end its scope, never panics, and returns an empty      *)
(* buffer.                                                                 *)
(***************************************************************************)
C5_DynEmptyRowSetReturns ==
    (X = 0 /\ parallel >= 1) =>
        /\ dynPar.st # "panic"
        /\ (driver = "dyn_par" /\ pc = "spawning") =>
              /\ workers = <<>>
              /\ ~ENABLED SpawnDynWorker
              /\ ENABLED JoinDynWorkers
        /\ dynPar.st = "ok" => dynPar.data = <<>> /\ dynPar.spawned = 0

\* C5's case: an empty row set, the largest worker count, the call returned
C5_Witness ==
    /\ X = 0 /\ Z >= 1
    /\ parallel = MaxWord
    /\ dynPar.st = "ok"

(***************************************************************************)
(* C6: an absurdly large worker count, X >= 1: in both engines the chunk   *)
(* size is 1, one worker per row is spawned and the call returns the       *)
(* sequential result.                                                      *)
(***************************************************************************)
C6_HugeWorkerCountOneWorkerPerRow ==
    (X >= 1 /\ AbsurdlyLarge(parallel)) =>
        /\ Called(fixedPar) =>
              /\ fixedPar.st = "ok"
              /\ fixedPar.chunk = 1
              /\ fixedPar.spawned = X
              /\ fixedPar.data = MatrixSequential
        /\ Called(dynPar) =>
              /\ dynPar.st = "ok"
              /\ dynPar.chunk = 1
              /\ dynPar.spawned = X
              /\ dynPar.data = DynSequential

\* what try_from owes for source and extents r, c, given its result m
TryFromContract(m, source, r, c) ==
    /\ m.ok <=> Len(source) = r * c
    /\ ~m.ok => m = NoMatrix
    /\ m.ok => \A i \in 0 .. r - 1 : \A j \in 0 .. c - 1 :
                   At(DynIndex(m, i, c), j) = At(source, i * c + j)

(***************************************************************************)
(* C7: try_from succeeds exactly when the source has R*C elements; on      *)
(* failure there is no matrix; on success position j of row view i is      *)
(* source[i*C + j].                                                        *)
(***************************************************************************)
C7_TryFromShapeAndOrder ==
    /\ driver \notin {"try_b", "gen_b"} =>
           TryFromContract(dynB, Flatten(rowsB), Y, Z)
    /\ driver \notin {"try_b", "gen_b", "try_a"} =>
           TryFromContract(dynA, vecA, X, Y)

\* C7's cases: a source of the wrong length was refused, and a 2 by 2 (or
\* larger) source of the right length was accepted
C7_Witness ==
    /\ driver = "rejected"
    /\ Len(vecA) # X * Y /\ ~dynA.ok
    /\ Y >= 2 /\ Z >= 2 /\ dynB.ok
    /\ At(DynIndex(dynB, 1, Z), 0) # At(DynIndex(dynB, 0, Z), 1)

(***************************************************************************)
(* C8: worker count >= 1: in both engines at most min(workers, X) threads  *)
(* are spawned.                                                            *)
(***************************************************************************)
C8_SpawnedAtMostMinWorkersRows ==
    parallel >= 1 =>
        /\ pc = "spawning" => Len(workers) <= Min(parallel, X)
        /\ fixedPar.spawned <= Min(parallel, X)
        /\ dynPar.spawned <= Min(parallel, X)

\* element (i, j) of the product, from the nested rows and from the flat data
MatrixCell(i, j) ==
    AscendingSum([k \in 1 .. Y |->
        At(At(rowsA, i), k - 1) * At(At(rowsB, k - 1), j)])

DynCell(i, j) ==
    AscendingSum([k \in 1 .. Y |->
        At(Flatten(rowsA), i * Y + (k - 1)) * At(Flatten(rowsB), (k - 1) * Z + j)])

(***************************************************************************)
(* C9: the sequential dot_product returns an X by Z matrix whose element   *)
(* (i, j) is the sum, seeded at zero and taken for k ascending, of         *)
(* A[i][k] * B[k][j]; the flat layout addresses self[i*Y+k], other[k*Z+j], *)
(* result[i*Z+j]; [[1,2],[3,4]] times [[2,0],[1,2]] is [[4,4],[10,8]].     *)
(***************************************************************************)
C9_SequentialDotProduct ==
    /\ fixedSeq.st = "ok" =>
          /\ Len(fixedSeq.data) = X
          /\ \A i \in 0 .. X - 1 :
                /\ Len(At(fixedSeq.data, i)) = Z
                /\ \A j \in 0 .. Z - 1 :
                      At(At(fixedSeq.data, i), j) = MatrixCell(i, j)
    /\ dynSeq.st = "ok" =>
          /\ Len(dynSeq.data) = X * Z
          /\ \A i \in 0 .. X - 1 : \A j \in 0 .. Z - 1 :
                At(dynSeq.data, i * Z + j) = DynCell(i, j)
    /\ MatrixDotProduct(MatrixFrom(<< <<1, 2>>, <<3, 4>> >>),
                        MatrixFrom(<< <<2, 0>>, <<1, 2>> >>), 2, 2, 2).data
          = << <<4, 4>>, <<10, 8>> >>
    /\ DynDotProduct(TryFrom(<<1, 2, 3, 4>>, 2, 2),
                     TryFrom(<<2, 0, 1, 2>>, 2, 2), 2, 2, 2).data
          = <<4, 4, 10, 8>>

\* C9's case: both sequential calls returned a product of 2 by 2 by 2 (or
\* larger) operands with a non-zero element
C9_Witness ==
    /\ X >= 2 /\ Y >= 2 /\ Z >= 2
    /\ fixedSeq.st = "ok" /\ dynSeq.st = "ok"
    /\ At(dynSeq.data, Z + 1) > 1
    /\ At(At(fixedSeq.data, 1), 1) > 1

(***************************************************************************)
(* C10: the two engines agree: on the same data, dot_product and           *)
(* dot_product_in_parallel of the flat layout return the row-major         *)
(* flattening of what the fixed layout returns.                            *)
(***************************************************************************)
C10_EnginesAgree ==
    /\ (Called(fixedSeq) /\ Called(dynSeq)) =>
          /\ fixedSeq.st = dynSeq.st
          /\ dynSeq.data = Flatten(fixedSeq.data)
    /\ (parallel >= 1 /\ Called(fixedPar) /\ Called(dynPar)) =>
          /\ fixedPar.st = dynPar.st
          /\ dynPar.data = Flatten(fixedPar.data)

(***************************************************************************)
(* What does hold of C10: the sequential results always agree, and the     *)
(* parallel results agree whenever both calls return.                      *)
(***************************************************************************)
EnginesAgreeWhenBothReturn ==
    /\ (Called(fixedSeq) /\ Called(dynSeq)) =>
          dynSeq.data = Flatten(fixedSeq.data)
    /\ (fixedPar.st = "ok" /\ dynPar.st = "ok") =>
          dynPar.data = Flatten(fixedPar.data)

(***************************************************************************)
(* Algebraic cases: identity, zero operand, inner dimension zero.          *)
(***************************************************************************)
\* the n by n matrix of ones on the diagonal and zeros elsewhere
Identity(n) == [i \in 1 .. n |-> [j \in 1 .. n |-> IF i = j THEN 1 ELSE 0]]

\* the r by c matrix of zeros
ZeroRows(r, c) == [i \in 1 .. r |-> [j \in 1 .. c |-> Zero]]

AllZero(rows) ==
    \A i \in 1 .. Len(rows) : \A j \in 1 .. Len(rows[i]) : rows[i][j] = Zero

\* every multiplication called so far returned the matrix m (nested rows);
\* the parallel ones are held to it for a worker count >= 1
EveryProductIs(m) ==
    /\ Called(fixedSeq) => fixedSeq.st = "ok" /\ fixedSeq.data = m
    /\ Called(dynSeq) => dynSeq.st = "ok" /\ dynSeq.data = Flatten(m)
    /\ parallel >= 1 =>
          /\ Called(fixedPar) => fixedPar.st = "ok" /\ fixedPar.data = m
          /\ Called(dynPar) => dynPar.st = "ok" /\ dynPar.data = Flatten(m)

\* the same, the parallel calls held to m only for X >= 1 and a worker count
\* that keeps X + parallel inside usize
EveryProductWithoutOverflowIs(m) ==
    /\ Called(fixedSeq) => fixedSeq.st = "ok" /\ fixedSeq.data = m
    /\ Called(dynSeq) => dynSeq.st = "ok" /\ dynSeq.data = Flatten(m)
    /\ (parallel >= 1 /\ X >= 1 /\ NoOverflow(X, parallel)) =>
          /\ Called(fixedPar) => fixedPar.st = "ok" /\ fixedPar.data = m
          /\ Called(dynPar) => dynPar.st = "ok" /\ dynPar.data = Flatten(m)

(***************************************************************************)
(* C11: identity(N) times M and M times identity(N) return M, with         *)
(* dot_product and with dot_product_in_parallel for every worker count     *)
(* >= 1, in both engines (stated for operands of at least one row).        *)
(***************************************************************************)
C11_IdentityReturnsOperand ==
    X >= 1 =>
        /\ (X = Y /\ rowsA = Identity(X)) => EveryProductIs(rowsB)
        /\ (Y = Z /\ rowsB = Identity(Y)) => EveryProductIs(rowsA)

(***************************************************************************)
(* What does hold of C11: the sequential products, and the parallel ones   *)
(* for X >= 1 and X + parallel inside usize.                               *)
(***************************************************************************)
IdentityWithoutOverflow ==
    /\ (X = Y /\ rowsA = Identity(X)) => EveryProductWithoutOverflowIs(rowsB)
    /\ (Y = Z /\ rowsB = Identity(Y)) => EveryProductWithoutOverflowIs(rowsA)

\* the identity case happens: a 2 by 2 identity on the left of a non-zero M
IdentityReached ==
    /\ X = 2 /\ Y = 2 /\ Z = 2 /\ rowsA = Identity(2) /\ ~AllZero(rowsB)
    /\ rowsB # Identity(2)
    /\ parallel = 2 /\ dynPar.st = "ok"

(***************************************************************************)
(* C12: if either operand is all zeros, dot_product and                    *)
(* dot_product_in_parallel (worker count >= 1) return the all-zero X by Z  *)
(* matrix, in both engines.                                                *)
(***************************************************************************)
C12_ZeroAbsorbs ==
    (AllZero(rowsA) \/ AllZero(rowsB)) => EveryProductIs(ZeroRows(X, Z))

(***************************************************************************)
(* What does hold of C12: the sequential products, and the parallel ones   *)
(* for X >= 1 and X + parallel inside usize.                               *)
(***************************************************************************)
ZeroAbsorbsWithoutOverflow ==
    (AllZero(rowsA) \/ AllZero(rowsB)) =>
        EveryProductWithoutOverflowIs(ZeroRows(X, Z))

(***************************************************************************)
(* C13: inner dimension Y = 0: dot_product and dot_product_in_parallel     *)
(* (worker count >= 1) return the X by Z matrix of zero values, with no    *)
(* access out of range, in both engines.                                   *)
(***************************************************************************)
C13_InnerDimensionZero ==
    Y = 0 =>
        /\ EveryProductIs(ZeroRows(X, Z))
        /\ (pc \in {"spawning", "unwinding"} /\ parallel >= 1) =>
              pc = "spawning" /\ ~AnyPanicked

(***************************************************************************)
(* What does hold of C13: the sequential products, no access out of range, *)
(* and the parallel products for X >= 1 and X + parallel inside usize.     *)
(***************************************************************************)
InnerDimensionZeroWithoutOverflow ==
    Y = 0 =>
        /\ EveryProductWithoutOverflowIs(ZeroRows(X, Z))
        /\ pc # "unwinding" /\ ~AnyPanicked


(***************************************************************************)
(* The scope of a parallel call: whose workers the scope variables hold.   *)
(***************************************************************************)
\* the fixed-layout call has ended and the scope still holds its workers
MatrixCallEnded == driver \in {"dyn_seq", "dyn_par"} /\ pc = "joined"

\* the flat-layout call has ended
DynCallEnded == driver = "end" /\ pc = "joined"

\* the row-major positions of the result elements a worker was handed
WorkerElements(w) ==
    IF "lo" \in DOMAIN w
    THEN {e \in 0 .. X * Z - 1 : w.lo * Z <= e /\ e < (w.lo + w.rows) * Z}
    ELSE {e \in 0 .. X * Z - 1 : w.res_lo <= e /\ e < w.res_lo + w.res_len}

\* a call that returned did so with every worker at the end of its loops, with
\* every element a worker was handed stored, and with the result buffer as it
\* stands
ReturnedBehindBarrier(outcome) ==
    outcome.st = "ok" =>
        /\ \A n \in 1 .. Len(workers) :
               /\ Finished(workers[n])
               /\ ~workers[n].panicked
               /\ \A e \in WorkerElements(workers[n]) : n \in written[e + 1]
        /\ outcome.data = result
        /\ outcome.spawned = Len(workers)

\* once a call has ended nothing of its scope moves until the next call begins
QuietAfterReturn ==
    (pc = "joined" /\ ~(driver = "dyn_par" /\ dynPar' # dynPar)
                   /\ ~(driver = "dyn_par" /\ pc' = "spawning")) =>
        /\ result' = result
        /\ written' = written
        /\ workers' = workers

\* a returned matrix is never written again
ReturnedIsFinal ==
    /\ fixedPar.st = "ok" => fixedPar' = fixedPar
    /\ dynPar.st = "ok" => dynPar' = dynPar

C15_OperandsReadOnly ==
    /\ fixedA.ok => fixedA.data = rowsA
    /\ fixedB.ok => fixedB.data = rowsB
    /\ dynA.ok => dynA.data = vecA /\ vecA = Flatten(rowsA)
    /\ (dynB.ok /\ driver # "gen_b") => dynB.data = Flatten(rowsB)

\* in the middle of the flat-layout parallel call, after the three other
\* calls: a worker has stored an element, another has elements left to store
C15_Witness ==
    /\ driver = "dyn_par" /\ pc = "spawning"
    /\ fixedSeq.st = "ok" /\ fixedPar.st = "ok" /\ dynSeq.st = "ok"
    /\ ~AllZero(rowsA) /\ ~AllZero(rowsB)
    /\ \E n \in 1 .. Len(workers) : workers[n].pos >= 1
    /\ \E n \in 1 .. Len(workers) : ~Finished(workers[n])
    /\ \E e \in 1 .. Len(result) : result[e] # Zero


\* the flat-layout call is in progress or has ended: result is its buffer
DynCallBegun == (driver = "dyn_par" /\ pc # "joined") \/ driver = "end"

(***************************************************************************)
(* C16: every DynMatrics<T, R, C> there is, whether it came from           *)
(* default(), from a successful try_from, from dot_product or from         *)
(* dot_product_in_parallel, and whatever row-view writes it has taken, has *)
(* a backing buffer of exactly R * C elements.                             *)
(***************************************************************************)
C16_DynBufferLength ==
    /\ dynB.ok => Len(dynB.data) = Y * Z
    /\ dynA.ok => Len(dynA.data) = X * Y
    /\ dynSeq.st = "ok" => Len(dynSeq.data) = X * Z
    /\ dynPar.st = "ok" => Len(dynPar.data) = X * Z
    /\ DynCallBegun => Len(result) = X * Z

\* a matrix from default() that has taken two row-view writes or more, one of
\* them of a value other than zero
C16_Witness ==
    /\ driver = "gen_b"
    /\ fill >= 2
    /\ Len(dynB.data) >= 3
    /\ \E e \in 1 .. fill : dynB.data[e] # Zero


(***************************************************************************)
(* The shape of a partition of the rows [0, x) among p workers.            *)
(***************************************************************************)
\* ceil(x / p) over the integers
CeilDiv(x, p) == (x + p - 1) \div p

RangeRows(range) == range[2] - range[1]

\* contiguous, ascending, pairwise non-overlapping, covering exactly [0, x),
\* ceil(x / p) rows each except that the last may have fewer
PartitionShape(ranges, x, p) ==
    /\ Len(ranges) >= 1
    /\ ranges[1][1] = 0
    /\ ranges[Len(ranges)][2] = x
    /\ \A n \in 1 .. Len(ranges) - 1 : ranges[n][2] = ranges[n + 1][1]
    /\ \A m, n \in 1 .. Len(ranges) : m < n => ranges[m][2] <= ranges[n][1]
    /\ \A n \in 1 .. Len(ranges) - 1 : RangeRows(ranges[n]) = CeilDiv(x, p)
    /\ RangeRows(ranges[Len(ranges)]) \in 0 .. CeilDiv(x, p)

\* flat layout: the worker's slices of result and of the left operand are
\* those of its rows [start, end)
RowAligned(w) ==
    /\ w.res_lo = w.start_index * Z
    /\ w.res_lo + w.res_len = w.chunk_end * Z
    /\ w.m0_lo = w.start_index * Y
    /\ w.m0_lo + w.m0_len = w.chunk_end * Y

PartitionShapeOfCalls ==
    /\ Called(fixedPar) => PartitionShape(fixedPar.ranges, X, parallel)
    /\ Called(dynPar) => PartitionShape(dynPar.ranges, X, parallel)
    /\ DynCallBegun => \A n \in 1 .. Len(workers) : RowAligned(workers[n])

(***************************************************************************)
(* C17: partition shape.  In both engines, for X >= 1 and a worker count   *)
(* >= 1, the row ranges handed to the workers are contiguous, pairwise     *)
(* non-overlapping, ascending, cover exactly [0, X) and have               *)
(* ceil(X / workers) rows each except that the last may be shorter; in the *)
(* flat layout a worker's result elements are [start * Z, end * Z) and its *)
(* left-operand elements [start * Y, end * Y).                             *)
(***************************************************************************)
C17_PartitionShape == (X >= 1 /\ parallel >= 1) => PartitionShapeOfCalls

\* the same for the worker counts whose chunk-size sum stays within usize
PartitionShapeWithoutOverflow ==
    (X >= 1 /\ parallel >= 1 /\ NoOverflow(X, parallel)) => PartitionShapeOfCalls

\* both calls have partitioned three rows among two workers: two rows and one
PartitionShapeReached ==
    /\ DynCallEnded
    /\ X = 3 /\ parallel = 2
    /\ fixedPar.ranges = <<<<0, 2>>, <<2, 3>>>>
    /\ dynPar.ranges = <<<<0, 2>>, <<2, 3>>>>


(***************************************************************************)
(* Who writes and reads what during a parallel call.                       *)
(***************************************************************************)
\* the left-operand rows a worker reads are the rows of its own range
ReadsOwnRows(w) ==
    IF "lo" \in DOMAIN w
    THEN MatrixWorkerStart(w.i, chunk_size) = w.lo
    ELSE /\ w.m0_lo = w.start_index * Y
         /\ w.m0_lo + w.m0_len = w.chunk_end * Y

\* no element has two writers, a worker writes within its own range and reads
\* its own rows of the left operand, and no two workers hold overlapping ranges
NoAliasing ==
    /\ \A e \in 1 .. Len(written) :
           /\ Cardinality(written[e]) <= 1
           /\ \A n \in written[e] : e - 1 \in WorkerElements(workers[n])
    /\ \A n \in 1 .. Len(workers) : ReadsOwnRows(workers[n])
    /\ \A m, n \in 1 .. Len(workers) :
           m # n => WorkerElements(workers[m]) \cap WorkerElements(workers[n]) = {}

\* when the call returns every result element has had its writer
EveryElementWritten ==
    ((MatrixCallEnded /\ fixedPar.st = "ok") \/ (DynCallEnded /\ dynPar.st = "ok"))
        => \A e \in 1 .. Len(written) : Cardinality(written[e]) = 1

(***************************************************************************)
(* C18: no aliasing across workers.  In every interleaving of a            *)
(* dot_product_in_parallel call, in both engines and for a worker count    *)
(* >= 1, each result element is written by exactly one worker, each worker *)
(* writes only elements of its own row range and reads only left-operand   *)
(* rows of that range, the right operand is only read, and no two workers  *)
(* hold overlapping write ranges.                                          *)
(***************************************************************************)
C18_NoAliasing ==
    parallel >= 1 =>
        /\ NoAliasing
        /\ EveryElementWritten
        /\ fixedB.ok => fixedB.data = rowsB
        /\ (dynB.ok /\ driver # "gen_b") => dynB.data = Flatten(rowsB)

\* the same for the worker counts whose chunk-size sum stays within usize
NoAliasingWithoutOverflow ==
    (parallel >= 1 /\ NoOverflow(X, parallel)) => NoAliasing /\ EveryElementWritten

\* two workers at once, each with an element written and an element to write
NoAliasingReached ==
    /\ pc = "spawning"
    /\ Len(workers) >= 2
    /\ \A n \in 1 .. 2 : workers[n].pos >= 1 /\ ~Finished(workers[n])


(***************************************************************************)
(* C19: termination.  In both engines, for a worker count >= 1 and under   *)
(* fair scheduling, every call of dot_product_in_parallel eventually       *)
(* returns: the spawning loop ends, every worker's loops end and the join  *)
(* is passed.                                                              *)
(***************************************************************************)
C19_Termination ==
    parallel >= 1 =>
        /\ (driver = "fixed_par") ~> (fixedPar.st = "ok")
        /\ (driver = "dyn_par") ~> (dynPar.st = "ok")

\* the same for at least one row and the worker counts whose chunk-size sum
\* stays within usize
TerminationWithoutOverflow ==
    (parallel >= 1 /\ X >= 1 /\ NoOverflow(X, parallel)) =>
        /\ (driver = "fixed_par") ~> (fixedPar.st = "ok")
        /\ (driver = "dyn_par") ~> (dynPar.st = "ok")

\* every call ends, by returning or by panicking, whatever the worker count
EveryCallEnds ==
    /\ (driver = "fixed_par") ~> Called(fixedPar)
    /\ (driver = "dyn_par") ~> Called(dynPar)


\* both parallel calls spawned as many workers, handed the i-th worker the same
\* rows, and handed no worker an empty range
SamePartition ==
    /\ fixedPar.spawned = dynPar.spawned
    /\ fixedPar.ranges = dynPar.ranges
    /\ \A n \in 1 .. Len(fixedPar.ranges) : RangeRows(fixedPar.ranges[n]) >= 1
    /\ \A n \in 1 .. Len(dynPar.ranges) : RangeRows(dynPar.ranges[n]) >= 1

(***************************************************************************)
(* C20: the two engines partition identically.  For every X >= 1 and       *)
(* worker count >= 1, chunks_mut(chunk_size) over the result rows (fixed   *)
(* layout) and the start_index / chunk_end loop (flat layout) spawn the    *)
(* same number of workers and hand the i-th worker the same row range,     *)
(* and every spawned worker's row range is non-empty.                      *)
(***************************************************************************)
C20_EnginesPartitionIdentically ==
    (X >= 1 /\ parallel >= 1 /\ Called(fixedPar) /\ Called(dynPar))
        => SamePartition

\* the same for the worker counts whose chunk-size sum stays within usize
SamePartitionWithoutOverflow ==
    (X >= 1 /\ parallel >= 1 /\ NoOverflow(X, parallel)
            /\ Called(fixedPar) /\ Called(dynPar))
        => SamePartition /\ fixedPar.spawned >= 1

===========================================================================
